---- MODULE Spec2Model ----
(***************************************************************************)
(* The quick review action of tk-maya-quickreview: capture a playblast,    *)
(* let the user confirm or reject it, upload it on a worker thread and     *)
(* show the result.  The main (GUI) thread runs one handler at a time; the *)
(* worker threads started by _upload run concurrently with it.             *)
(***************************************************************************)
EXTENDS Integers, Sequences, FiniteSets, TLC

\* ------------------------------------------------------------------ bounds
\* how many handlers the user triggers: execute() calls plus presses of
\* submit or cancel
MaxCalls == 4
\* how many minutes the wall clock advances over (timestamps 1..MaxMinute)
MaxMinute == 2

\* ------------------------------------------------------- python values
\* An optional python value: None is <<>>, a value v is <<v>>.
None == <<>>
Some(v) == <<v>>

\* The host's playback times, in half frames (-3 is frame -1.5).
HostTimes == {-3, 4}

\* int() taken as the floor: differs from int() below zero.
int_floor(h) == h \div 2

\* int(x) of a time given in half frames: truncation toward zero.
int(h) == IF h >= 0 THEN h \div 2 ELSE -((-h) \div 2)

\* "{f}-{l}".format(f=first_frame, l=last_frame)
format_range(f, l) == ToString(f) \o "-" \o ToString(l)

\* The Quicktime namedtuple.
Quicktime(success, error_msg, count, range, first, last, path) ==
    [success |-> success, error_msg |-> error_msg,
     frame_count |-> count, frame_range |-> range,
     first_frame |-> first, last_frame |-> last, path |-> path]

\* Outcomes of the calls into the host and the operating system.
MakedirsOutcomes == {"ok", "error"}
\* playblast: wrote the movie at the path, returned without a file at the
\* path, or raised.
PlayblastOutcomes == {"file", "nofile", "raise"}

\* _generate_quicktime(quicktime_path) in an environment where the output
\* directory exists or not (dirOk), os.makedirs would end mk, the playblast
\* would end pb and the frame slider shows minT..maxT.  Returns the record
\* (qt), whether cmds.playblast was invoked, whether the directory exists
\* afterwards and whether a movie was written at the path.
generate_quicktime(quicktime_path, dirOk, mk, pb, minT, maxT) ==
    IF ~dirOk /\ mk = "error"
    THEN [qt |-> Quicktime(FALSE, Some("makedirs"), None, None, None, None,
                           None),
          playblast |-> FALSE, dir |-> FALSE, wrote |-> FALSE]
    ELSE LET first_frame == int(minT)
             last_frame == int(maxT)
         IN [qt |-> Quicktime(pb # "raise",
                              IF pb = "raise" THEN Some("playblast") ELSE None,
                              Some(last_frame - first_frame + 1),
                              Some(format_range(first_frame, last_frame)),
                              Some(first_frame), Some(last_frame),
                              Some(quicktime_path)),
             playblast |-> TRUE, dir |-> TRUE, wrote |-> (pb = "file")]

\* _validate_quicktime without the os.path.exists test.
validate_without_exists(qt, fs) ==
    /\ qt.success
    /\ qt.path # None

\* _validate_quicktime: success and path and os.path.exists(path), on the
\* record qt and the files fs.
validate_quicktime(qt, fs) ==
    /\ qt.success
    /\ qt.path # None
    /\ fs[qt.path[1]] # 0

\* ------------------------------------------------------------------- state
VARIABLES
    clock,          \* the wall clock's minute: the timestamp field
    minTime,        \* the frame slider's minimum, in half frames
    maxTime,        \* the frame slider's maximum, in half frames
    dirExists,      \* whether the quicktime directory exists
    files,          \* path -> 0 (no file) or the capture that wrote it
    busy,           \* whether the global busy indicator is displayed
    shows,          \* count of show_global_busy calls
    clears,         \* count of clear_global_busy calls
    quicktime,      \* self._quicktime: None or Some([id, qt])
    confirm_widget, \* self._confirm_widget: 0 (unset) or a dialog
    dialogs,        \* the dialogs shown so far
    log,            \* the log entries written so far
    mpc,            \* where the main thread is
    frame,          \* the locals of the handler the main thread runs
    workers,        \* the UploadThreads started so far
    versions,       \* the Version entities of the tracking service
    execs,          \* count of execute() calls
    clicks,         \* count of presses of submit or cancel
    assigns,        \* capture -> count of assignments of self.quicktime
    presses,        \* what each press of submit or cancel did
    gen             \* the last _generate_quicktime call: inputs and result

vars == <<clock, minTime, maxTime, dirExists, files, busy, shows, clears,
          quicktime, confirm_widget, dialogs, log, mpc, frame, workers,
          versions, execs, clicks, assigns, presses, gen>>

Paths == 1..MaxMinute

NoData == [code |-> None, sg_path_to_movie |-> None, frame_count |-> None,
           frame_range |-> None, sg_first_frame |-> None,
           sg_last_frame |-> None, capture |-> 0]

NoFrame == [e |-> 0, path |-> None, d |-> 0, c |-> 0, data |-> NoData]

NoGen == [called |-> FALSE, path |-> 0, dirOk |-> FALSE, mk |-> "ok",
          pb |-> "file", minT |-> 0, maxT |-> 0,
          out |-> [qt |-> Quicktime(FALSE, None, None, None, None, None, None),
                   playblast |-> FALSE, dir |-> FALSE, wrote |-> FALSE]]

\* QuickReviewAction.__init__ in a fresh session.
InitAction ==
    /\ quicktime = None
    /\ confirm_widget = 0
    /\ dialogs = <<>>
    /\ log = {}
    /\ mpc = "idle"
    /\ frame = NoFrame
    /\ workers = <<>>
    /\ versions = <<>>
    /\ execs = 0
    /\ clicks = 0
    /\ assigns = [e \in 1..MaxCalls |-> 0]
    /\ presses = <<>>
    /\ busy = FALSE
    /\ shows = 0
    /\ clears = 0
    /\ gen = NoGen

Init ==
    /\ clock = 1
    /\ minTime \in HostTimes
    /\ maxTime \in HostTimes
    /\ minTime <= maxTime
    /\ dirExists \in BOOLEAN
    /\ files = [p \in Paths |-> 0]
    /\ InitAction

\* ----------------------------------------------------------- ActionBusy
\* ActionBusy.__enter__
ActionBusy_enter ==
    /\ busy' = TRUE
    /\ shows' = shows + 1

\* A busy block that clears the indicator after the block instead of in
\* __exit__: an exception skips the clear.
ActionBusy_exit_skipped_on_raise(raised) ==
    IF raised THEN UNCHANGED <<busy, clears>>
    ELSE /\ busy' = FALSE
         /\ clears' = clears + 1

\* ActionBusy.__exit__, reached when the block ends or raises.
ActionBusy_exit(raised) ==
    /\ busy' = FALSE
    /\ clears' = clears + 1

\* --------------------------------------------------------------- dialogs
\* engine.show_dialog(...): a non-modal dialog; rec and existed keep what
\* execute validated (the record, and whether its file existed).
Dialog(kind, e, path, msg, w, thread, rec, existed) ==
    [kind |-> kind, open |-> TRUE, exec |-> e, path |-> path, msg |-> msg,
     worker |-> w, thread |-> thread, busyAtShow |-> busy, submitted |-> FALSE,
     rec |-> rec, existed |-> existed]

OpenConfirm == {d \in 1..Len(dialogs) :
                   dialogs[d].kind = "confirm" /\ dialogs[d].open}

\* -------------------------------------------------------------- execute
\* execute, line 66: entering the busy block.
execute_enter ==
    /\ mpc = "idle"
    /\ execs + clicks < MaxCalls
    /\ execs' = execs + 1
    /\ ActionBusy_enter
    /\ frame' = [NoFrame EXCEPT !.e = execs + 1]
    /\ mpc' = "exec_path"
    /\ UNCHANGED <<clock, minTime, maxTime, dirExists, files, clears,
                   quicktime, confirm_widget, dialogs, log, workers, versions,
                   clicks, assigns, presses, gen>>

\* _get_quicktime_path(): the template applied to the context's fields and
\* the minute's timestamp.
get_quicktime_path == clock

\* execute, line 67: the path is computed, or the template calls raise and
\* the exception leaves the busy block and execute.
execute_path ==
    /\ mpc = "exec_path"
    /\ \E raised \in BOOLEAN :
          IF raised
          THEN /\ ActionBusy_exit(TRUE)
               /\ mpc' = "idle"
               /\ frame' = NoFrame
          ELSE /\ frame' = [frame EXCEPT !.path = Some(get_quicktime_path)]
               /\ mpc' = "exec_generate"
               /\ UNCHANGED <<busy, clears>>
    /\ UNCHANGED <<clock, minTime, maxTime, dirExists, files, shows, quicktime,
                   confirm_widget, dialogs, log, workers, versions, execs,
                   clicks, assigns, presses, gen>>

\* A setter that stores the record under another attribute.
set_quicktime_dropped(e, info) ==
    /\ quicktime' = quicktime
    /\ assigns' = [assigns EXCEPT ![e] = @ + 1]

\* The quicktime setter, lines 112-117, called by execute e.
set_quicktime(e, info) ==
    /\ quicktime' = Some([id |-> e, qt |-> info])
    /\ assigns' = [assigns EXCEPT ![e] = @ + 1]

\* The files after a _generate_quicktime call that ended r for capture e.
files_after(r, path, e) ==
    IF r.wrote THEN [files EXCEPT ![path] = e] ELSE files

\* execute, line 68: self.quicktime = _generate_quicktime(path), and the
\* busy block ends.
execute_generate ==
    /\ mpc = "exec_generate"
    /\ \E mk \in (IF dirExists THEN {"ok"} ELSE MakedirsOutcomes),
          pb \in PlayblastOutcomes :
          LET p == frame.path[1]
              r == generate_quicktime(p, dirExists, mk, pb, minTime, maxTime)
          IN /\ gen' = [called |-> TRUE, path |-> p, dirOk |-> dirExists,
                        mk |-> mk, pb |-> pb, minT |-> minTime,
                        maxT |-> maxTime, out |-> r]
             /\ dirExists' = r.dir
             /\ files' = files_after(r, p, frame.e)
             /\ set_quicktime(frame.e, r.qt)
    /\ ActionBusy_exit(FALSE)
    /\ mpc' = "exec_validate"
    /\ UNCHANGED <<clock, minTime, maxTime, shows, confirm_widget, dialogs,
                   log, frame, workers, versions, execs, clicks, presses>>

\* execute, lines 70-85: the error dialog, or the confirmation dialog.
execute_validate ==
    /\ mpc = "exec_validate"
    /\ LET qt == quicktime[1].qt
           existed == qt.path # None /\ files[qt.path[1]] # 0
       IN IF validate_quicktime(qt, files)
          THEN /\ dialogs' = Append(dialogs,
                     Dialog("confirm", frame.e, frame.path, None, 0, "main",
                            qt, existed))
               /\ confirm_widget' = Len(dialogs) + 1
               /\ log' = log
          ELSE /\ log' = log \cup {<<"error", "unable_to_generate", frame.e>>}
               /\ dialogs' = Append(dialogs,
                     Dialog("error", frame.e, None, qt.error_msg, 0, "main",
                            qt, existed))
               /\ confirm_widget' = confirm_widget
    /\ mpc' = "idle"
    /\ frame' = NoFrame
    /\ UNCHANGED <<clock, minTime, maxTime, dirExists, files, busy, shows,
                   clears, quicktime, workers, versions, execs, clicks,
                   assigns, presses, gen>>

\* --------------------------------------------------------------- _upload
\* What a press of submit or cancel has done so far.
Press(kind, d) ==
    [kind |-> kind, d |-> d, closed |-> 0, removes |-> 0, removed |-> "none",
     raised |-> FALSE, done |-> FALSE,
     capture |-> IF quicktime = None THEN 0 ELSE quicktime[1].id]

\* _upload, lines 176-178: the submit button of dialog d was pressed; the
\* action's confirmation widget is closed and the busy block entered.
upload_enter(d) ==
    /\ mpc = "idle"
    /\ execs + clicks < MaxCalls
    /\ d \in OpenConfirm
    /\ clicks' = clicks + 1
    /\ dialogs' = [dialogs EXCEPT ![d].submitted = TRUE,
                                  ![confirm_widget].open = FALSE]
    /\ presses' = Append(presses,
                         [Press("submit", d) EXCEPT !.closed = confirm_widget])
    /\ ActionBusy_enter
    /\ frame' = [NoFrame EXCEPT !.d = d, !.c = clicks + 1]
    /\ mpc' = "upload_data"
    /\ UNCHANGED <<clock, minTime, maxTime, dirExists, files, clears,
                   quicktime, confirm_widget, log, workers, versions, execs,
                   assigns, gen>>

\* The data dict of _upload, lines 185-198, from self.quicktime (capture is
\* the identity of the record the values were read from).
version_data(q) ==
    [code |-> q.qt.path, sg_path_to_movie |-> q.qt.path,
     frame_count |-> q.qt.frame_count, frame_range |-> q.qt.frame_range,
     sg_first_frame |-> q.qt.first_frame, sg_last_frame |-> q.qt.last_frame,
     capture |-> q.id]

\* _upload, lines 180-201: the notes, the current user and the data are
\* gathered, or one of these calls raises (os.path.basename does on a path
\* of None) and the exception leaves the busy block and _upload.
upload_data ==
    /\ mpc = "upload_data"
    /\ \E raised \in BOOLEAN :
          IF raised \/ quicktime[1].qt.path = None
          THEN /\ ActionBusy_exit(TRUE)
               /\ presses' = [presses EXCEPT ![frame.c].raised = TRUE,
                                             ![frame.c].done = TRUE]
               /\ mpc' = "idle"
               /\ frame' = NoFrame
          ELSE /\ ActionBusy_exit(FALSE)
               /\ presses' = presses
               /\ frame' = [frame EXCEPT !.data = version_data(quicktime[1])]
               /\ mpc' = "upload_start"
    /\ UNCHANGED <<clock, minTime, maxTime, dirExists, files, shows, quicktime,
                   confirm_widget, dialogs, log, workers, versions, execs,
                   clicks, assigns, gen>>

\* UploadThread.__init__ and start(): a thread about to run.
UploadThread(data, d, c) ==
    [data |-> data, dialog |-> d, click |-> c, pc |-> "create", version |-> 0,
     creates |-> 0, uploads |-> 0, handoffs |-> 0, target |-> 0, sent |-> 0,
     busyAtStart |-> busy, atAccept |-> files[data.sg_path_to_movie[1]]]

\* _upload, lines 203-205: the thread is created and started.
upload_start ==
    /\ mpc = "upload_start"
    /\ workers' = Append(workers, UploadThread(frame.data, frame.d, frame.c))
    /\ presses' = [presses EXCEPT ![frame.c].done = TRUE]
    /\ mpc' = "idle"
    /\ frame' = NoFrame
    /\ UNCHANGED <<clock, minTime, maxTime, dirExists, files, busy, shows,
                   clears, quicktime, confirm_widget, dialogs, log, versions,
                   execs, clicks, assigns, gen>>

\* ------------------------------------------------------------- _rejected
\* os.remove(path): the outcomes it can have on the files.
RemoveOutcomes(path) == IF files[path] = 0 THEN {"error"} ELSE {"ok", "error"}

\* A _cleanup that swallows the os.error without logging.
cleanup_log_silent_failure(rm, c) ==
    IF rm = "ok" THEN {<<"info", "removed", c>>} ELSE {}

\* _cleanup, lines 133-137: what is logged after os.remove ended rm.
cleanup_log(rm, c) ==
    IF rm = "ok" THEN {<<"info", "removed", c>>}
    ELSE {<<"error", "unable_to_remove", c>>}

\* _rejected: the cancel button of dialog d was pressed.  _cleanup removes
\* the file of self.quicktime and the action's confirmation widget is
\* closed; os.remove(None) raises a TypeError nothing catches.
rejected(d) ==
    /\ mpc = "idle"
    /\ execs + clicks < MaxCalls
    /\ d \in OpenConfirm
    /\ clicks' = clicks + 1
    /\ IF quicktime = None
       THEN /\ dialogs' = [dialogs EXCEPT ![confirm_widget].open = FALSE]
            /\ presses' = Append(presses,
                  [Press("cancel", d) EXCEPT !.closed = confirm_widget,
                                             !.done = TRUE])
            /\ UNCHANGED <<files, log>>
       ELSE IF quicktime[1].qt.path = None
       THEN /\ presses' = Append(presses,
                  [Press("cancel", d) EXCEPT !.removes = 1, !.raised = TRUE,
                                             !.done = TRUE])
            /\ UNCHANGED <<files, log, dialogs>>
       ELSE \E rm \in RemoveOutcomes(quicktime[1].qt.path[1]) :
            /\ files' = IF rm = "ok"
                        THEN [files EXCEPT ![quicktime[1].qt.path[1]] = 0]
                        ELSE files
            /\ log' = log \cup cleanup_log(rm, clicks + 1)
            /\ dialogs' = [dialogs EXCEPT ![confirm_widget].open = FALSE]
            /\ presses' = Append(presses,
                  [Press("cancel", d) EXCEPT !.closed = confirm_widget,
                                             !.removes = 1, !.removed = rm,
                                             !.done = TRUE])
    /\ UNCHANGED <<clock, minTime, maxTime, dirExists, busy, shows, clears,
                   quicktime, confirm_widget, mpc, frame, workers, versions,
                   execs, assigns, gen>>

\* ------------------------------------------------------ UploadThread.run
\* shotgun.create and shotgun.upload: they return or raise.
CallOutcomes == {"ok", "raise"}

\* A run that hands the callback over right after create, without upload.
run_create_then_callback(w) ==
    /\ workers[w].pc = "create"
    /\ log' = log \cup {<<"info", "creating_version", w>>}
    /\ \E r \in CallOutcomes :
          IF r = "ok"
          THEN /\ versions' = Append(versions,
                      [data |-> workers[w].data, creator |-> w,
                       movies |-> <<>>])
               /\ workers' = [workers EXCEPT ![w].pc = "callback",
                                             ![w].creates = @ + 1,
                                             ![w].version = Len(versions) + 1]
          ELSE /\ versions' = versions
               /\ workers' = [workers EXCEPT ![w].pc = "dead",
                                             ![w].creates = @ + 1]
    /\ UNCHANGED <<clock, minTime, maxTime, dirExists, files, busy, shows,
                   clears, quicktime, confirm_widget, dialogs, mpc, frame,
                   execs, clicks, assigns, presses, gen>>

\* run, lines 279-280: the version is created, or create raises and the
\* thread ends with the exception.
run_create(w) ==
    /\ workers[w].pc = "create"
    /\ log' = log \cup {<<"info", "creating_version", w>>}
    /\ \E r \in CallOutcomes :
          IF r = "ok"
          THEN /\ versions' = Append(versions,
                      [data |-> workers[w].data, creator |-> w,
                       movies |-> <<>>])
               /\ workers' = [workers EXCEPT ![w].pc = "upload",
                                             ![w].creates = @ + 1,
                                             ![w].version = Len(versions) + 1]
          ELSE /\ versions' = versions
               /\ workers' = [workers EXCEPT ![w].pc = "dead",
                                             ![w].creates = @ + 1]
    /\ UNCHANGED <<clock, minTime, maxTime, dirExists, files, busy, shows,
                   clears, quicktime, confirm_widget, dialogs, mpc, frame,
                   execs, clicks, assigns, presses, gen>>

\* The entity id upload is given: version["id"] of the create just made.
upload_target(w) == workers[w].version

\* A run that tries the upload again after it raised.
run_upload_retry(w) ==
    /\ workers[w].pc = "upload"
    /\ log' = log \cup {<<"info", "uploading", w>>}
    /\ LET path == workers[w].data.sg_path_to_movie[1]
       IN \E r \in (IF files[path] = 0 THEN {"raise"} ELSE CallOutcomes) :
          IF r = "ok"
          THEN /\ versions' = [versions EXCEPT ![upload_target(w)].movies =
                                                   Append(@, files[path])]
               /\ workers' = [workers EXCEPT ![w].pc = "callback",
                                             ![w].uploads = @ + 1,
                                             ![w].target = upload_target(w),
                                             ![w].sent = files[path]]
          ELSE /\ versions' = versions
               /\ workers' = [workers EXCEPT ![w].uploads = @ + 1]
    /\ UNCHANGED <<clock, minTime, maxTime, dirExists, files, busy, shows,
                   clears, quicktime, confirm_widget, dialogs, mpc, frame,
                   execs, clicks, assigns, presses, gen>>

\* run, lines 284-287: the movie at the path is uploaded to the version, or
\* upload raises (it does when there is no file at the path) and the thread
\* ends with the exception.
run_upload(w) ==
    /\ workers[w].pc = "upload"
    /\ log' = log \cup {<<"info", "uploading", w>>}
    /\ LET path == workers[w].data.sg_path_to_movie[1]
       IN \E r \in (IF files[path] = 0 THEN {"raise"} ELSE CallOutcomes) :
          IF r = "ok"
          THEN /\ versions' = [versions EXCEPT ![upload_target(w)].movies =
                                                   Append(@, files[path])]
               /\ workers' = [workers EXCEPT ![w].pc = "callback",
                                             ![w].uploads = @ + 1,
                                             ![w].target = upload_target(w),
                                             ![w].sent = files[path]]
          ELSE /\ versions' = versions
               /\ workers' = [workers EXCEPT ![w].pc = "dead",
                                             ![w].uploads = @ + 1]
    /\ UNCHANGED <<clock, minTime, maxTime, dirExists, files, busy, shows,
                   clears, quicktime, confirm_widget, dialogs, mpc, frame,
                   execs, clicks, assigns, presses, gen>>

\* A run that calls the callback itself: _upload_complete on the worker.
call_in_worker_thread(w) ==
    /\ dialogs' = Append(dialogs,
          Dialog("success", workers[w].data.capture, None, None, w, "worker",
                 NoGen.out.qt, FALSE))
    /\ workers' = [workers EXCEPT ![w].pc = "done"]

\* engine.execute_in_main_thread(callback, version) called by thread w: the
\* call is queued for the main thread.
execute_in_main_thread(w) ==
    /\ workers' = [workers EXCEPT ![w].pc = "waiting", ![w].handoffs = @ + 1]
    /\ UNCHANGED dialogs

\* run, line 290: the callback is handed to the main thread.
run_callback(w) ==
    /\ workers[w].pc = "callback"
    /\ execute_in_main_thread(w)
    /\ UNCHANGED <<clock, minTime, maxTime, dirExists, files, busy, shows,
                   clears, quicktime, confirm_widget, log, mpc, frame,
                   versions, execs, clicks, assigns, presses, gen>>

\* _upload_complete(version), run by the main thread for thread w: the
\* success dialog is shown, and the thread's execute_in_main_thread returns.
upload_complete(w) ==
    /\ mpc = "idle"
    /\ workers[w].pc = "waiting"
    /\ dialogs' = Append(dialogs,
          Dialog("success", workers[w].data.capture, None, None, w, "main",
                 NoGen.out.qt, FALSE))
    /\ workers' = [workers EXCEPT ![w].pc = "done"]
    /\ UNCHANGED <<clock, minTime, maxTime, dirExists, files, busy, shows,
                   clears, quicktime, confirm_widget, log, mpc, frame,
                   versions, execs, clicks, assigns, presses, gen>>

\* The minute of the wall clock passes.
Tick ==
    /\ clock < MaxMinute
    /\ clock' = clock + 1
    /\ UNCHANGED <<minTime, maxTime, dirExists, files, busy, shows, clears,
                   quicktime, confirm_widget, dialogs, log, mpc, frame,
                   workers, versions, execs, clicks, assigns, presses, gen>>

Next ==
    \/ execute_enter
    \/ execute_path
    \/ execute_generate
    \/ execute_validate
    \/ \E d \in 1..Len(dialogs) : upload_enter(d)
    \/ upload_data
    \/ upload_start
    \/ \E d \in 1..Len(dialogs) : rejected(d)
    \/ \E w \in 1..Len(workers) : run_create(w)
    \/ \E w \in 1..Len(workers) : run_upload(w)
    \/ \E w \in 1..Len(workers) : run_callback(w)
    \/ \E w \in 1..Len(workers) : upload_complete(w)
    \/ Tick

Spec == Init /\ [][Next]_vars

\* ----------------------------------------------------------- properties
DialogIds == 1..Len(dialogs)
WorkerIds == 1..Len(workers)
PressIds == 1..Len(presses)

\* The dialogs execute e has shown.
ExecuteDialogs(e) ==
    {d \in DialogIds : dialogs[d].exec = e
                         /\ dialogs[d].kind \in {"confirm", "error"}}

\* The threads the press c has started.
StartedBy(c) == {w \in WorkerIds : workers[w].click = c}

\* The success dialogs shown for thread w.
SuccessDialogs(w) ==
    {d \in DialogIds : dialogs[d].kind = "success" /\ dialogs[d].worker = w}

\* C1: the steps happen in the order capture -> confirm -> upload -> show
\* result.  A confirmation dialog exists only for an execute whose
\* _generate_quicktime has returned (its record was assigned); a thread
\* exists only for a confirmation dialog whose submit button was pressed;
\* a success dialog exists only for a thread whose create and upload calls
\* have both been made and have returned, and it was shown after the
\* confirmation dialog that started the thread.
C1_StepsInOrder ==
    /\ \A d \in DialogIds :
          /\ dialogs[d].kind = "confirm" =>
                /\ assigns[dialogs[d].exec] >= 1
                /\ ~(mpc \in {"exec_path", "exec_generate"}
                     /\ frame.e = dialogs[d].exec)
          /\ dialogs[d].kind = "success" =>
                LET w == dialogs[d].worker
                IN /\ w \in WorkerIds
                   /\ workers[w].creates = 1
                   /\ workers[w].uploads = 1
                   /\ workers[w].version # 0
                   /\ workers[w].sent # 0
                   /\ workers[w].pc = "done"
                   /\ workers[w].dialog < d
    /\ \A w \in WorkerIds :
          LET d == workers[w].dialog
          IN /\ d \in DialogIds
             /\ dialogs[d].kind = "confirm"
             /\ dialogs[d].submitted
             /\ assigns[dialogs[d].exec] >= 1

\* A run that went through all four steps.
C1_Witness ==
    \E d \in DialogIds : dialogs[d].kind = "success"

\* C2: for every execute that validated its record, the confirmation dialog
\* was shown if and only if the record had success true, a path and a file
\* at the path at validation time; otherwise an error was logged, the
\* ErrorWidget was shown with the record's error message, and that execute
\* showed no confirmation dialog and no thread was started from it.
C2_ConfirmIffValid ==
    /\ \A d \in DialogIds : dialogs[d].kind \in {"confirm", "error"} =>
          LET r == dialogs[d].rec
              valid == r.success /\ r.path # None /\ dialogs[d].existed
          IN /\ (dialogs[d].kind = "confirm") <=> valid
             /\ dialogs[d].kind = "error" =>
                   /\ dialogs[d].msg = r.error_msg
                   /\ <<"error", "unable_to_generate", dialogs[d].exec>>
                         \in log
                   /\ ExecuteDialogs(dialogs[d].exec) = {d}
                   /\ \A w \in WorkerIds : workers[w].dialog # d
             /\ dialogs[d].kind = "confirm" =>
                   /\ <<"error", "unable_to_generate", dialogs[d].exec>>
                         \notin log
                   /\ ExecuteDialogs(dialogs[d].exec) = {d}
    /\ \A e \in 1..execs :
          (assigns[e] = 1 /\ ~(mpc = "exec_validate" /\ frame.e = e))
             => Cardinality(ExecuteDialogs(e)) = 1
    /\ \A w \in WorkerIds : dialogs[workers[w].dialog].kind = "confirm"

\* A validation that failed only because no file was at the path, and one
\* that passed.
C2_Witness ==
    /\ \E d \in DialogIds : /\ dialogs[d].kind = "error"
                            /\ dialogs[d].rec.success
                            /\ ~dialogs[d].existed
    /\ \E d \in DialogIds : dialogs[d].kind = "confirm"

\* C3: in UploadThread.run the create call has returned before the upload
\* call is made, the upload goes to the version this thread created, and
\* the callback is handed to the main thread at most once, exactly once
\* when both calls have returned and never otherwise; _upload_complete
\* runs on the main thread, once, after the upload has returned.
C3_RunOrder ==
    /\ \A w \in WorkerIds :
          /\ workers[w].uploads > 0 =>
                workers[w].creates = 1 /\ workers[w].version # 0
          /\ workers[w].pc = "upload" => workers[w].creates = 1
          /\ workers[w].pc \in {"callback", "waiting", "done"} =>
                /\ workers[w].uploads = 1
                /\ workers[w].target = workers[w].version
                /\ versions[workers[w].target].creator = w
                /\ Len(versions[workers[w].target].movies) = 1
          /\ workers[w].handoffs <= 1
          /\ workers[w].handoffs = 1 <=> workers[w].pc \in {"waiting", "done"}
          /\ workers[w].pc \in {"create", "upload", "callback", "dead"} =>
                SuccessDialogs(w) = {}
          /\ workers[w].pc = "done" => Cardinality(SuccessDialogs(w)) = 1
    /\ \A d \in DialogIds : dialogs[d].kind = "success" =>
          /\ dialogs[d].thread = "main"
          /\ workers[dialogs[d].worker].handoffs = 1
          /\ workers[dialogs[d].worker].uploads = 1

\* Two threads whose callbacks have run, each after its own upload.
C3_Witness ==
    \E w1, w2 \in WorkerIds :
        /\ w1 # w2
        /\ workers[w1].pc = "done"
        /\ workers[w2].pc = "done"
        /\ workers[w1].version # workers[w2].version

\* C4: when the create call or the upload call fails, the failure is logged
\* and an error dialog is shown: a thread that ended with an exception has
\* an error entry in the log and an error dialog.
C4_UploadFailureShown ==
    \A w \in WorkerIds : workers[w].pc = "dead" =>
        /\ \E l \in log : l[1] = "error" /\ l[3] = w
                          /\ l[2] \in {"create_failed", "upload_failed"}
        /\ \E d \in DialogIds : dialogs[d].kind = "error"
                                /\ dialogs[d].worker = w

C6_Step ==
    /\ Len(workers') >= Len(workers)
    /\ \A w \in WorkerIds :
          /\ workers'[w] # workers[w] =>
                <<workers[w].pc, workers'[w].pc>> \in
                    {<<"create", "upload">>, <<"create", "dead">>,
                     <<"upload", "callback">>, <<"upload", "dead">>,
                     <<"callback", "waiting">>, <<"waiting", "done">>}
          /\ workers[w].pc \in {"dead", "done"} => workers'[w] = workers[w]

\* Each acceptance starts at most one thread, and exactly one once _upload
\* has returned without raising; a thread makes at most one create and at
\* most one upload call; a thread about to make a call never waits for
\* another thread.
C6_Inv ==
    /\ \A c \in PressIds : presses[c].kind = "submit" =>
          /\ Cardinality(StartedBy(c)) <= 1
          /\ (presses[c].done /\ ~presses[c].raised) =>
                Cardinality(StartedBy(c)) = 1
          /\ (~presses[c].done \/ presses[c].raised) => StartedBy(c) = {}
    /\ \A w \in WorkerIds :
          /\ presses[workers[w].click].kind = "submit"
          /\ workers[w].creates <= 1
          /\ workers[w].uploads <= 1
          /\ workers[w].pc = "dead" => workers[w].handoffs = 0
          /\ workers[w].pc = "create" => ENABLED run_create(w)
          /\ workers[w].pc = "upload" => ENABLED run_upload(w)

\* C6: the upload is a single fire-and-forget attempt: one thread per
\* acceptance, at most one create and one upload call per thread, no retry
\* after a failure, no step that cancels or removes a started thread, and
\* no thread queued behind another.
C6_FireAndForget == []C6_Inv /\ [][C6_Step]_vars

\* A thread whose upload failed next to a thread started by another
\* acceptance that is still running.
C6_Witness ==
    \E w1, w2 \in WorkerIds :
        /\ workers[w1].pc = "dead"
        /\ workers[w1].uploads = 1
        /\ workers[w2].pc \in {"create", "upload"}
        /\ workers[w1].click # workers[w2].click

\* The captures whose upload has returned or that the user has rejected.
Discarded ==
    {presses[c].capture :
        c \in {x \in PressIds : presses[x].kind = "cancel" /\ presses[x].done}}
    \cup
    {workers[w].data.capture :
        w \in {x \in WorkerIds :
                  workers[x].pc \in {"callback", "waiting", "done"}}}

\* The executes that have assigned self.quicktime.
Assigned == {e \in 1..MaxCalls : assigns[e] >= 1}

Latest(S) == CHOOSE x \in S : \A y \in S : y <= x

\* C7 as stated: every execute that validated assigned the record exactly
\* once, and the action no longer holds the record of a capture whose upload
\* has completed or that the user has rejected.
C7_DiscardedAfterUse ==
    /\ \A e \in 1..execs : ExecuteDialogs(e) # {} => assigns[e] = 1
    /\ quicktime # None => quicktime[1].id \notin Discarded

\* C7 amended: each execute assigns self.quicktime at most once, exactly
\* once when it gets to validate, and not at all when the path computation
\* raises; the action holds the record of the latest assignment whatever
\* has been uploaded or rejected since, so the record of an uploaded or
\* rejected capture stays held until a later execute replaces it.
C7_HeldUntilReplaced ==
    /\ \A e \in 1..MaxCalls :
          /\ assigns[e] <= 1
          /\ e > execs => assigns[e] = 0
          /\ ExecuteDialogs(e) # {} => assigns[e] = 1
          /\ (mpc \in {"exec_path", "exec_generate"} /\ frame.e = e)
                => assigns[e] = 0
    /\ IF Assigned = {} THEN quicktime = None
       ELSE quicktime # None /\ quicktime[1].id = Latest(Assigned)
    /\ Discarded \subseteq Assigned

\* After a rejection the action still holds the record of a capture that
\* was rejected or uploaded.
C7_Witness ==
    /\ quicktime # None
    /\ quicktime[1].id \in Discarded
    /\ \E c \in PressIds : presses[c].kind = "cancel"

\* The frame shown for the host time h (in half frames): the integer
\* between 0 and h/2 that is nearest to h/2.
Truncates(f, h) ==
    IF h >= 0 THEN 2 * f <= h /\ h < 2 * f + 2
    ELSE 2 * f - 2 < h /\ h <= 2 * f

\* C8 as stated, of the last _generate_quicktime call: success exactly when
\* error_msg is None; with success the path is p, the frames are the host's
\* min and max times, the count is last - first + 1 and the range is
\* "first-last"; when the directory cannot be created the playblast is not
\* invoked and path and the frame fields are None; and a record with
\* success false has path None.
C8_AsStated ==
    gen.called =>
        LET qt == gen.out.qt
        IN /\ qt.success <=> (qt.error_msg = None)
           /\ qt.success =>
                 /\ qt.path = Some(gen.path)
                 /\ qt.first_frame # None
                 /\ qt.last_frame # None
                 /\ 2 * qt.first_frame[1] = gen.minT
                 /\ 2 * qt.last_frame[1] = gen.maxT
                 /\ qt.frame_count
                       = Some(qt.last_frame[1] - qt.first_frame[1] + 1)
                 /\ qt.frame_range
                       = Some(ToString(qt.first_frame[1]) \o "-"
                              \o ToString(qt.last_frame[1]))
           /\ (~gen.dirOk /\ gen.mk = "error") =>
                 /\ ~gen.out.playblast
                 /\ ~qt.success
                 /\ qt.path = None
                 /\ qt.frame_count = None
                 /\ qt.frame_range = None
                 /\ qt.first_frame = None
                 /\ qt.last_frame = None
           /\ ~qt.success => qt.path = None

\* C8 amended: success exactly when error_msg is None; whenever the
\* directory exists or could be created the playblast is invoked and the
\* record has path p, first and last frame the host's min and max times
\* truncated toward zero, count last - first + 1 and range "first-last",
\* with success true when the playblast returned and false (path still p)
\* when it raised; when the directory cannot be created the playblast is
\* not invoked and the record has success false and path and the frame
\* fields None.
C8_RecordOfGenerate ==
    gen.called =>
        LET qt == gen.out.qt
            nodir == ~gen.dirOk /\ gen.mk = "error"
        IN /\ qt.success <=> (qt.error_msg = None)
           /\ qt.success <=> (~nodir /\ gen.pb # "raise")
           /\ ~nodir =>
                 /\ gen.out.playblast
                 /\ qt.path = Some(gen.path)
                 /\ qt.first_frame # None
                 /\ qt.last_frame # None
                 /\ Truncates(qt.first_frame[1], gen.minT)
                 /\ Truncates(qt.last_frame[1], gen.maxT)
                 /\ qt.frame_count
                       = Some(qt.last_frame[1] - qt.first_frame[1] + 1)
                 /\ qt.frame_range
                       = Some(ToString(qt.first_frame[1]) \o "-"
                              \o ToString(qt.last_frame[1]))
           /\ nodir =>
                 /\ ~gen.out.playblast
                 /\ ~qt.success
                 /\ qt.path = None
                 /\ qt.frame_count = None
                 /\ qt.frame_range = None
                 /\ qt.first_frame = None
                 /\ qt.last_frame = None

\* A playblast that raised at a fractional negative start time: the record
\* has success false and carries the path.
C8_Witness ==
    /\ gen.called
    /\ gen.pb = "raise"
    /\ ~gen.out.qt.success
    /\ gen.out.qt.path = Some(gen.path)
    /\ gen.minT < 0
    /\ gen.out.qt.frame_range = Some("-1-2")

\* The indicator is off outside the busy blocks, every dialog was shown and
\* every thread started with it off, and shows and clears are balanced.
BusyBalanced ==
    /\ \A d \in DialogIds : ~dialogs[d].busyAtShow
    /\ \A w \in WorkerIds : ~workers[w].busyAtStart
    /\ busy <=> mpc \in {"exec_path", "exec_generate", "upload_data"}
    /\ shows - clears = IF busy THEN 1 ELSE 0

\* C9 as stated: the indicator is balanced and cleared before any dialog
\* and before the thread is started, also when the block raises; and it is
\* not displayed while a thread makes its create and upload calls.
C9_NeverBusyDuringUpload ==
    /\ BusyBalanced
    /\ busy => \A w \in WorkerIds : workers[w].pc \notin {"create", "upload"}

\* C9 amended: the indicator is balanced and cleared before any dialog is
\* shown and before the thread is started, also when the block raises, so
\* it is off whenever the main thread is outside a busy block and at the
\* moment each thread starts; while a thread makes its calls it is
\* displayed only inside the busy block of a later execute or _upload.
C9_BusyCleared ==
    /\ BusyBalanced
    /\ mpc \in {"idle", "exec_validate", "upload_start"} => ~busy
    /\ \A w \in WorkerIds :
          (busy /\ workers[w].pc \in {"create", "upload"}) =>
              \/ mpc \in {"exec_path", "exec_generate"}
                    /\ frame.e > dialogs[workers[w].dialog].exec
              \/ mpc = "upload_data" /\ frame.c > workers[w].click

\* The indicator of a later execute is displayed while a thread is about to
\* upload, after an earlier busy block was left by an exception.
C9_Witness ==
    /\ busy
    /\ \E w \in WorkerIds : workers[w].pc = "upload"
    /\ \E e \in 1..execs : e < frame.e /\ assigns[e] = 0

\* C10: from the acceptance until the upload call returns nothing deletes
\* or overwrites the file at the thread's path, and the movie the thread
\* uploaded was written by the capture whose dialog the user accepted.
C10_UploadsConfirmedFile ==
    \A w \in WorkerIds :
        /\ workers[w].pc \in {"create", "upload"} =>
              files[workers[w].data.sg_path_to_movie[1]] = workers[w].atAccept
        /\ workers[w].pc \in {"callback", "waiting", "done"} =>
              workers[w].sent = dialogs[workers[w].dialog].exec
====
